---------------------------- MODULE Spec2Model ----------------------------
(***************************************************************************)
(* Model of the MONARCH congressional-trades service (server/src/index.ts, *)
(* server/src/types.ts): the Donchian tagger computeDonchianTag, the       *)
(* annotation attachDonchian, the listing filter filterTrades and the      *)
(* three GET routes registered on the Express application.                 *)
(*                                                                         *)
(* JavaScript values are tagged records, so that null, undefined, numbers  *)
(* and strings stay distinct: Null, Undefined, Num(n), Str(s).  A string   *)
(* is a sequence of one-character strings, so that toLowerCase and Number  *)
(* are computed character by character.                                    *)
(***************************************************************************)
EXTENDS Integers, Sequences, FiniteSets

VARIABLES
    mockTrades,   \* the trade collection imported from ./mockData
    req,          \* the last request handled (Undefined before the first)
    res,          \* the response written for it (Undefined before the first)
    handled,      \* the route whose callback answered it ("" before the first)
    callArg,      \* tagger harness: the trade handed to computeDonchianTag
    callRet,      \* tagger harness: what it returned (Undefined before the call)
    trades,       \* dashboard: useState<TradeWithSignals[]>([])
    selectedId,   \* dashboard: useState<number | null>(null)
    filters,      \* dashboard: useState({ ticker: "", party: "", transaction: "" })
    loading,      \* dashboard: useState(false)
    error,        \* dashboard: useState<string | null>(null)
    pending,      \* dashboard: the loadTrades calls awaiting fetchTrades
    issued,       \* dashboard: how many loadTrades calls were started
    lastLoad      \* dashboard: what the loadTrades call that just ended saw and got

dashboard == <<trades, selectedId, filters, loading, error, pending, issued, lastLoad>>

vars == <<mockTrades, req, res, handled, callArg, callRet, dashboard>>

---------------------------------------------------------------------------
(* Bounds of the model *)

MaxPrice == 3     \* indicator levels range over 0..MaxPrice
MaxTrades == 2    \* length of the trade collection
MaxId == 1        \* trade ids range over 0..MaxId
MaxLoads == 3     \* loadTrades calls started in one run of the dashboard

---------------------------------------------------------------------------
(* JavaScript values *)

Null == [k |-> "null"]
Undefined == [k |-> "undefined"]
NaN == [k |-> "NaN"]
Num(n) == [k |-> "number", v |-> n]
Str(s) == [k |-> "string", v |-> s]

NumOrNull(S) == {Null} \cup {Num(n) : n \in S}

\* The dashboard's state as App's useState calls create it.
NoFilters == [ticker |-> <<>>, party |-> <<>>, transaction |-> <<>>]

DashboardCreated ==
    /\ trades = <<>>
    /\ selectedId = Null
    /\ filters = NoFilters
    /\ loading = FALSE
    /\ error = Null
    /\ pending = {}
    /\ issued = 0
    /\ lastLoad = Undefined

\* TransactionType
Purchase == <<"P", "u", "r", "c", "h", "a", "s", "e">>
Sale == <<"S", "a", "l", "e">>
TransactionType == {Purchase, Sale}

\* DonchianTag["zone"]
Upper == Str("upper")
Mid == Str("mid")
Lower == Str("lower")
Zone == {Upper, Mid, Lower, Null}

DonchianTag == [breakoutLong : BOOLEAN, breakdownShort : BOOLEAN, zone : Zone]

---------------------------------------------------------------------------
(* computeDonchianTag *)

\* The null guard on the four destructured values.
missingContext(signals) ==
    \/ signals.sma20 = Null
    \/ signals.donchianHigh20 = Null
    \/ signals.donchianLow20 = Null
    \/ signals.donchianMid20 = Null

\* Mutant: the lower edge of the mid band is taken inclusive.
baseZoneInclusiveLow(price, donchianHigh20, donchianLow20, donchianMid20) ==
    IF price >= donchianMid20 /\ price <= donchianHigh20 THEN Upper
    ELSE IF price < donchianMid20 /\ price >= donchianLow20 THEN Mid
    ELSE IF price <= donchianLow20 THEN Lower
    ELSE Null

\* let zone = null; if / else if / else if
baseZone(price, donchianHigh20, donchianLow20, donchianMid20) ==
    IF price >= donchianMid20 /\ price <= donchianHigh20 THEN Upper
    ELSE IF price < donchianMid20 /\ price > donchianLow20 THEN Mid
    ELSE IF price <= donchianLow20 THEN Lower
    ELSE Null

\* Mutant: the breakout and breakdown comparisons are not strict.
applyOverrideNonStrict(transaction, price, donchianHigh20, donchianLow20, tag) ==
    IF transaction = Purchase /\ price >= donchianHigh20
    THEN [tag EXCEPT !.breakoutLong = TRUE, !.zone = Upper]
    ELSE IF transaction = Sale /\ price =< donchianLow20
    THEN [tag EXCEPT !.breakdownShort = TRUE, !.zone = Lower]
    ELSE tag

\* Mutant: the override ignores the transaction direction.
applyOverrideAnyDirection(transaction, price, donchianHigh20, donchianLow20, tag) ==
    IF price > donchianHigh20
    THEN [tag EXCEPT !.breakoutLong = TRUE, !.zone = Upper]
    ELSE IF price < donchianLow20
    THEN [tag EXCEPT !.breakdownShort = TRUE, !.zone = Lower]
    ELSE tag

\* The breakout / breakdown override written into the tag.
applyOverride(transaction, price, donchianHigh20, donchianLow20, tag) ==
    IF transaction = Purchase /\ price > donchianHigh20
    THEN [tag EXCEPT !.breakoutLong = TRUE, !.zone = Upper]
    ELSE IF transaction = Sale /\ price < donchianLow20
    THEN [tag EXCEPT !.breakdownShort = TRUE, !.zone = Lower]
    ELSE tag

\* The tag built once the four values are known to be present.
tagOf(transaction, signals) ==
    LET price == signals.sma20.v
        donchianHigh20 == signals.donchianHigh20.v
        donchianLow20 == signals.donchianLow20.v
        donchianMid20 == signals.donchianMid20.v
    IN  applyOverride(transaction, price, donchianHigh20, donchianLow20,
            [breakoutLong |-> FALSE,
             breakdownShort |-> FALSE,
             zone |-> baseZone(price, donchianHigh20, donchianLow20, donchianMid20)])

\* Mutant: a snapshot with a missing value gets a tag with a null zone.
computeDonchianTagNullFields(t) ==
    IF t.signals = Null THEN Null
    ELSE IF missingContext(t.signals)
    THEN [breakoutLong |-> FALSE, breakdownShort |-> FALSE, zone |-> Null]
    ELSE tagOf(t.transaction, t.signals)

computeDonchianTag(t) ==
    IF t.signals = Null THEN Null
    ELSE IF missingContext(t.signals) THEN Null
    ELSE tagOf(t.transaction, t.signals)

---------------------------------------------------------------------------
(* Input domain of the tagger harness *)

\* TechSignals: the fields the server reads.  ticker, date, macd,
\* macdSignal, sma50, sma200, bandUpper and bandLower are read nowhere.
\* The channel of a snapshot is the minimum, midpoint and maximum of one
\* window, so the levels that are present are ordered low <= mid <= high
\* (a flat window gives three equal levels); sma20 is unconstrained.
Ordered(a, b) == a = Null \/ b = Null \/ a.v <= b.v

ChannelOrdered(s) ==
    /\ Ordered(s.donchianLow20, s.donchianMid20)
    /\ Ordered(s.donchianMid20, s.donchianHigh20)
    /\ Ordered(s.donchianLow20, s.donchianHigh20)

Prices == 0 .. MaxPrice

TaggerSignals ==
    {s \in [rsi14 : {Null}, macdHist : {Null},
            sma20 : NumOrNull(Prices),
            donchianHigh20 : NumOrNull(Prices),
            donchianLow20 : NumOrNull(Prices),
            donchianMid20 : NumOrNull(Prices)] : ChannelOrdered(s)}

TaggerTrades ==
    [id : {0}, ticker : {Str(<<"A", "B">>)}, party : {<<"R">>},
     transaction : TransactionType,
     signals : {Null} \cup TaggerSignals,
     donchian : {Undefined}]

InitTagger ==
    /\ mockTrades = <<>>
    /\ req = Undefined
    /\ res = Undefined
    /\ handled = ""
    /\ callArg \in TaggerTrades
    /\ callRet = Undefined
    /\ DashboardCreated

\* One call of computeDonchianTag on the drawn trade.
Classify ==
    /\ callRet = Undefined
    /\ callRet' = computeDonchianTag(callArg)
    /\ UNCHANGED <<mockTrades, req, res, handled, callArg, dashboard>>

NextTagger == Classify

SpecTagger == InitTagger /\ [][NextTagger]_vars


---------------------------------------------------------------------------
(* Strings: String.prototype.toLowerCase and Number(string) *)

UpperCase ==
    <<"A", "B", "C", "D", "E", "F", "G", "H", "I", "J", "K", "L", "M",
      "N", "O", "P", "Q", "R", "S", "T", "U", "V", "W", "X", "Y", "Z">>
LowerCase ==
    <<"a", "b", "c", "d", "e", "f", "g", "h", "i", "j", "k", "l", "m",
      "n", "o", "p", "q", "r", "s", "t", "u", "v", "w", "x", "y", "z">>
Digits == <<"0", "1", "2", "3", "4", "5", "6", "7", "8", "9">>

\* The lower-case letter of every upper-case letter.
LowerOf ==
    [c \in {UpperCase[i] : i \in DOMAIN UpperCase} |->
        LowerCase[CHOOSE i \in DOMAIN UpperCase : UpperCase[i] = c]]

toLowerCaseChar(c) == IF c \in DOMAIN LowerOf THEN LowerOf[c] ELSE c

toLowerCase(s) == [i \in 1 .. Len(s) |-> toLowerCaseChar(s[i])]

IsDigit(c) == \E i \in DOMAIN Digits : Digits[i] = c
DigitValue(c) == (CHOOSE i \in DOMAIN Digits : Digits[i] = c) - 1

RECURSIVE DecimalValue(_)
DecimalValue(s) ==
    IF s = <<>> THEN 0
    ELSE DecimalValue(SubSeq(s, 1, Len(s) - 1)) * 10 + DigitValue(s[Len(s)])

\* Number(s) on a route parameter: a run of decimal digits is its value and
\* a word is NaN (the requests of the model carry no other form).
Number(s) ==
    IF s # <<>> /\ \A i \in DOMAIN s : IsDigit(s[i])
    THEN Num(DecimalValue(s))
    ELSE NaN

\* Truthiness of a string | undefined value: a non-empty string.
Truthy(x) == x.k = "string" /\ x.v # <<>>

---------------------------------------------------------------------------
(* attachDonchian, filterTrades and the route callbacks.                   *)
(* The collection is passed as `store` and a trade object is referred to   *)
(* by its index in it; every operation returns the store it leaves behind. *)

Arr(values) == [k |-> "array", v |-> values]
Obj(fields) == [k |-> "object", v |-> fields]

Indices(store) == [i \in 1 .. Len(store) |-> i]

\* Mutant: the tag is written into the stored trade.
attachDonchianInPlace(store, ref) ==
    LET annotated == [store[ref] EXCEPT !.donchian = computeDonchianTag(store[ref])]
    IN  [store |-> [store EXCEPT ![ref] = annotated], value |-> annotated]

\* Mutant: the trade is copied without the tag.
attachDonchianSkipped(store, ref) ==
    [store |-> store, value |-> store[ref]]

\* ({ ...trade, donchian: computeDonchianTag(trade) }): a new object.
attachDonchian(store, ref) ==
    [store |-> store,
     value |-> [store[ref] EXCEPT !.donchian = computeDonchianTag(store[ref])]]

\* refs.map(attachDonchian)
RECURSIVE mapAttachDonchian(_, _)
mapAttachDonchian(store, refs) ==
    IF refs = <<>> THEN [store |-> store, values |-> <<>>]
    ELSE LET first == attachDonchian(store, Head(refs))
             rest == mapAttachDonchian(first.store, Tail(refs))
         IN  [store |-> rest.store, values |-> <<first.value>> \o rest.values]

\* trade.ticker?.toLowerCase()
tickerLowered(t) ==
    IF t.ticker = Null THEN Undefined ELSE Str(toLowerCase(t.ticker.v))

\* Mutant: the trade's own fields are compared without lowering them.
keepsCaseSensitive(params, t) ==
    /\ ~(Truthy(params.ticker) /\ t.ticker # Str(toLowerCase(params.ticker.v)))
    /\ ~(Truthy(params.party) /\ t.party # toLowerCase(params.party.v))
    /\ ~(Truthy(params.transaction)
            /\ t.transaction # toLowerCase(params.transaction.v))

\* The predicate handed to mockTrades.filter in filterTrades.
keeps(params, t) ==
    /\ ~(Truthy(params.ticker)
            /\ tickerLowered(t) # Str(toLowerCase(params.ticker.v)))
    /\ ~(Truthy(params.party)
            /\ toLowerCase(t.party) # toLowerCase(params.party.v))
    /\ ~(Truthy(params.transaction)
            /\ toLowerCase(t.transaction) # toLowerCase(params.transaction.v))

filterTrades(store, params) ==
    SelectSeq(Indices(store), LAMBDA i : keeps(params, store[i]))

\* typeof q === "string" ? q : undefined
stringOrUndefined(q) == IF q.k = "string" THEN q ELSE Undefined

\* app.get("/api/trades/congress")
listTrades(store, request) ==
    LET refs == filterTrades(store,
                    [ticker |-> stringOrUndefined(request.query.ticker),
                     party |-> stringOrUndefined(request.query.party),
                     transaction |-> stringOrUndefined(request.query.transaction)])
        out == mapAttachDonchian(store, refs)
    IN  [store |-> out.store, res |-> [status |-> 200, body |-> Arr(out.values)]]

NotFound == [status |-> 404, body |-> Obj([message |-> "Trade not found"])]

\* Mutant: a miss is answered with an empty list.
getTradeByIdEmptyOnMiss(store, request) ==
    LET id == Number(request.params.id)
        found == {i \in DOMAIN store : Num(store[i].id) = id}
    IN  IF found = {} THEN [store |-> store, res |-> [status |-> 200, body |-> Arr(<<>>)]]
        ELSE LET ref == CHOOSE i \in found : \A j \in found : i <= j
                 out == attachDonchian(store, ref)
             IN  [store |-> out.store,
                  res |-> [status |-> 200, body |-> Obj(out.value)]]

\* app.get("/api/trades/congress/:id"): find gives the first trade with the id.
getTradeById(store, request) ==
    LET id == Number(request.params.id)
        found == {i \in DOMAIN store : Num(store[i].id) = id}
    IN  IF found = {} THEN [store |-> store, res |-> NotFound]
        ELSE LET ref == CHOOSE i \in found : \A j \in found : i <= j
                 out == attachDonchian(store, ref)
             IN  [store |-> out.store,
                  res |-> [status |-> 200, body |-> Obj(out.value)]]

RsiThreshold == 55
MacdHistThreshold == 0

\* x ?? 0
orZero(x) == IF x = Null THEN 0 ELSE x.v

\* Mutant: a missing reading passes the comparison.
bullishMissingPasses(signals) ==
    /\ (signals.rsi14 = Null \/ signals.rsi14.v > RsiThreshold)
    /\ (signals.macdHist = Null \/ signals.macdHist.v > MacdHistThreshold)

\* The bullishOnly predicate (signals is not null here).
bullish(signals) ==
    /\ orZero(signals.rsi14) > RsiThreshold
    /\ orZero(signals.macdHist) > MacdHistThreshold

\* The donchianBreakoutsOnly predicate: Boolean(tag?.breakoutLong || tag?.breakdownShort)
breakout(t) ==
    LET tag == computeDonchianTag(t)
    IN  tag # Null /\ (tag.breakoutLong \/ tag.breakdownShort)

True == <<"t", "r", "u", "e">>

\* app.get("/api/trades/congress/signals")
getSignals(store, request) ==
    LET bullishOnly == request.query.bullishOnly = Str(True)
        donchianBreakoutsOnly == request.query.donchianBreakoutsOnly = Str(True)
        withSignals == SelectSeq(Indices(store), LAMBDA i : store[i].signals # Null)
        afterBullish ==
            IF bullishOnly
            THEN SelectSeq(withSignals,
                    LAMBDA i : store[i].signals # Null /\ bullish(store[i].signals))
            ELSE withSignals
        afterBreakout ==
            IF donchianBreakoutsOnly
            THEN SelectSeq(afterBullish, LAMBDA i : breakout(store[i]))
            ELSE afterBullish
        out == mapAttachDonchian(store, afterBreakout)
    IN  [store |-> out.store, res |-> [status |-> 200, body |-> Arr(out.values)]]

---------------------------------------------------------------------------
(* The router: routes are tried in the order of the app.get calls and the  *)
(* first one whose path matches answers (no callback calls next()).        *)

Signals == <<"s", "i", "g", "n", "a", "l", "s">>

RouteOrder == <<"/api/trades/congress", "/api/trades/congress/:id",
                "/api/trades/congress/signals">>

\* `path` is the list of segments after /api/trades/congress; Express
\* compares literal segments without regard to case.
routeMatches(route, path) ==
    CASE route = "/api/trades/congress" -> path = <<>>
      [] route = "/api/trades/congress/:id" -> Len(path) = 1
      [] route = "/api/trades/congress/signals" ->
            Len(path) = 1 /\ toLowerCase(path[1]) = Signals

firstMatch(path) ==
    LET hits == {i \in DOMAIN RouteOrder : routeMatches(RouteOrder[i], path)}
    IN  RouteOrder[CHOOSE i \in hits : \A j \in hits : i <= j]

\* req.params as the matched route fills it.
paramsOf(route, path) ==
    IF route = "/api/trades/congress/:id" THEN [id |-> path[1]] ELSE [id |-> <<>>]

callback(route, store, request) ==
    CASE route = "/api/trades/congress" -> listTrades(store, request)
      [] route = "/api/trades/congress/:id" -> getTradeById(store, request)
      [] route = "/api/trades/congress/signals" -> getSignals(store, request)

---------------------------------------------------------------------------
(* Requests *)

NoQuery ==
    [ticker |-> Undefined, party |-> Undefined, transaction |-> Undefined,
     bullishOnly |-> Undefined, donchianBreakoutsOnly |-> Undefined]

\* A repeated query parameter is parsed to an array, not a string.
Repeated == [k |-> "array"]

TickerParams == {Undefined, Str(<<>>), Str(<<"a", "b">>), Repeated}
PartyParams == {Undefined, Str(<<"r">>)}
TransactionParams ==
    {Undefined, Str(<<"S", "A", "L", "E">>), Str(<<"h", "o", "l", "d">>)}
FlagParams == {Undefined, Str(True), Str(<<"1">>)}

ListingRequests ==
    {[path |-> <<>>,
      query |-> [NoQuery EXCEPT !.ticker = t, !.party = p, !.transaction = x]] :
        t \in TickerParams, p \in PartyParams, x \in TransactionParams}

\* Every id a trade can have, one id no trade has, and an id with a leading zero.
IdSegments == {<<Digits[n + 1]>> : n \in 0 .. MaxId + 1} \cup {<<"0", "1">>}

LookupRequests == {[path |-> <<seg>>, query |-> NoQuery] : seg \in IdSegments}

SignalsRequests ==
    {[path |-> <<Signals>>,
      query |-> [NoQuery EXCEPT !.bullishOnly = b, !.donchianBreakoutsOnly = d]] :
        b \in FlagParams, d \in FlagParams}

Requests == ListingRequests \cup LookupRequests \cup SignalsRequests

---------------------------------------------------------------------------
(* The trade collection.  ./mockData is a fixed array of TradeWithSignals  *)
(* with unique ids and no donchian field; of CongressTrade the model keeps *)
(* the fields the server reads (the spread in attachDonchian carries the   *)
(* others along exactly like these).                                       *)

Snapshot(rsi14, macdHist, sma20, high, low, mid) ==
    [rsi14 |-> rsi14, macdHist |-> macdHist, sma20 |-> sma20,
     donchianHigh20 |-> high, donchianLow20 |-> low, donchianMid20 |-> mid]

\* sma20 above the channel, with four momentum readings around the thresholds
AboveChannel ==
    {Snapshot(r[1], r[2], Num(3), Num(2), Num(0), Num(1)) :
        r \in {<<Num(56), Num(1)>>, <<Num(55), Num(1)>>,
               <<Num(56), Null>>, <<Null, Num(1)>>}}

\* bullish momentum, with sma20 below the channel, inside it, and no channel mid
BullishElsewhere ==
    {Snapshot(Num(56), Num(1), Num(0), Num(3), Num(1), Num(2)),
     Snapshot(Num(56), Num(1), Num(1), Num(2), Num(0), Num(1)),
     Snapshot(Num(56), Num(1), Num(1), Num(2), Num(0), Null)}

Ids == 0 .. MaxId

Trades(tickers, parties, signals) ==
    [id : Ids, ticker : tickers, party : parties, transaction : TransactionType,
     signals : signals, donchian : {Undefined}]

\* The listing filters are exercised on every ticker / party / direction.
HttpTrades ==
    Trades({Null, Str(<<"A", "B">>)}, {<<"R">>, <<"D">>},
           {Null, Snapshot(Num(56), Num(1), Num(3), Num(2), Num(0), Num(1))})

\* The signal predicates are exercised on every snapshot above.
HandlerTrades ==
    Trades({Str(<<"A", "B">>)}, {<<"R">>},
           {Null} \cup AboveChannel \cup BullishElsewhere)

Collections(pool) ==
    {c \in UNION {[1 .. n -> pool] : n \in 0 .. MaxTrades} :
        \A i, j \in DOMAIN c : i # j => c[i].id # c[j].id}

InitServer(pool) ==
    /\ mockTrades \in Collections(pool)
    /\ req = Undefined
    /\ res = Undefined
    /\ handled = ""
    /\ callArg = Null
    /\ callRet = Undefined
    /\ DashboardCreated

\* The callback of `route` answers `request`.  Callbacks are synchronous,
\* so a request is taken up only when no other is being answered.
Run(route, request) ==
    LET full == [path |-> request.path, query |-> request.query,
                 params |-> paramsOf(route, request.path)]
        out == callback(route, mockTrades, full)
    IN  /\ req = Undefined
        /\ mockTrades' = out.store
        /\ res' = out.res
        /\ req' = full
        /\ handled' = route
        /\ UNCHANGED <<callArg, callRet, dashboard>>

\* res.json has sent the response: the request and its response are gone.
Sent ==
    /\ req # Undefined
    /\ req' = Undefined
    /\ res' = Undefined
    /\ handled' = ""
    /\ UNCHANGED <<mockTrades, callArg, callRet, dashboard>>

\* The service: a GET request is answered by the first matching route.
Get ==
    \E request \in Requests : Run(firstMatch(request.path), request)

Init == InitServer(HttpTrades)

Next == Get \/ Sent

Spec == Init /\ [][Next]_vars

\* The three callbacks, each invoked on the requests written for it.
CallListTrades ==
    \E request \in ListingRequests : Run("/api/trades/congress", request)

CallGetTradeById ==
    \E request \in LookupRequests : Run("/api/trades/congress/:id", request)

CallGetSignals ==
    \E request \in SignalsRequests : Run("/api/trades/congress/signals", request)

InitHandlers == InitServer(HandlerTrades)

NextHandlers == CallListTrades \/ CallGetTradeById \/ CallGetSignals \/ Sent

SpecHandlers == InitHandlers /\ [][NextHandlers]_vars

\* Listing requests whose filter values carry leading or trailing spaces
\* (the query string is decoded by Express and handed on as it is).
PaddedTickerParams ==
    {Str(<<>>), Str(<<"a", "b">>), Str(<<" ", "a", "b">>), Str(<<"a", "b", " ">>),
     Str(<<" ">>)}
PaddedPartyParams == {Undefined, Str(<<"r", " ">>)}
PaddedTransactionParams == {Undefined, Str(<<" ", "s", "a", "l", "e">>)}

PaddedListingRequests ==
    {[path |-> <<>>,
      query |-> [NoQuery EXCEPT !.ticker = t, !.party = p, !.transaction = x]] :
        t \in PaddedTickerParams, p \in PaddedPartyParams,
        x \in PaddedTransactionParams}

GetPadded ==
    \E request \in PaddedListingRequests : Run(firstMatch(request.path), request)

NextPadded == GetPadded \/ Sent

SpecPadded == Init /\ [][NextPadded]_vars

---------------------------------------------------------------------------
(* The dashboard (App): the effect on [filters] that calls loadTrades, the *)
(* filter inputs, the row click, and fetchTrades answered by the service.  *)

\* value || undefined
orUndefined(s) == IF s # <<>> THEN Str(s) ELSE Undefined

\* buildQuery appends the truthy values; the service decodes them back.
buildQuery(params) ==
    [NoQuery EXCEPT !.ticker = IF Truthy(params.ticker) THEN params.ticker ELSE Undefined,
                    !.party = IF Truthy(params.party) THEN params.party ELSE Undefined,
                    !.transaction = IF Truthy(params.transaction)
                                    THEN params.transaction ELSE Undefined]

\* What fetchTrades resolves to when the service answers: the body of the
\* listing response for GET /api/trades/congress?<query>.
fetchTrades(store, params) ==
    LET request == [path |-> <<>>, query |-> buildQuery(params)]
        route == firstMatch(request.path)
    IN  callback(route, store,
                 [path |-> request.path, query |-> request.query,
                  params |-> paramsOf(route, request.path)])

\* The arguments loadTrades hands to fetchTrades.
paramsFrom(f) ==
    [ticker |-> orUndefined(f.ticker), party |-> orUndefined(f.party),
     transaction |-> orUndefined(f.transaction)]

\* The body of the effect up to the await: a load is started for `f`.
startLoad(f) ==
    /\ issued < MaxLoads
    /\ loading' = TRUE
    /\ error' = Null
    /\ pending' = pending \cup {[n |-> issued + 1, params |-> paramsFrom(f)]}
    /\ issued' = issued + 1

\* The effect runs after the first render.
Mount ==
    /\ issued = 0
    /\ startLoad(filters)
    /\ lastLoad' = Undefined
    /\ UNCHANGED <<mockTrades, req, res, handled, callArg, callRet,
                   trades, selectedId, filters>>

\* What the two text inputs and the select can hold.
FilterValues ==
    [ticker |-> {<<>>, <<"a", "b">>},
     party |-> {<<>>, <<"r">>},
     transaction |-> {<<>>, Purchase, Sale}]

\* onChange of a filter input: setFilters, and the effect runs again.
SetFilters ==
    \E f \in {"ticker", "party", "transaction"} :
        \E value \in FilterValues[f] :
            /\ issued > 0
            /\ value # filters[f]
            /\ filters' = [filters EXCEPT ![f] = value]
            /\ startLoad(filters')
            /\ lastLoad' = Undefined
            /\ UNCHANGED <<mockTrades, req, res, handled, callArg, callRet,
                           trades, selectedId>>

\* onClick of a table row; the rows are rendered when loading is false.
SelectRow ==
    \E i \in DOMAIN trades :
        /\ ~loading
        /\ selectedId' = Num(trades[i].id)
        /\ lastLoad' = Undefined
        /\ UNCHANGED <<mockTrades, req, res, handled, callArg, callRet,
                       trades, filters, loading, error, pending, issued>>

\* prev && data.some(...)
keepsSelection(prev, data) ==
    /\ prev # Null
    /\ prev.v # 0
    /\ \E i \in DOMAIN data : Num(data[i].id) = prev

\* The updater handed to setSelectedId.
nextSelectedId(prev, data) ==
    IF keepsSelection(prev, data) THEN prev
    ELSE IF data = <<>> THEN Null
    ELSE Num(data[1].id)

\* fetchTrades resolved: the rest of the try block, then finally.
LoadSucceeds ==
    \E p \in pending :
        LET out == fetchTrades(mockTrades, p.params)
            data == out.res.body.v
        IN  /\ mockTrades' = out.store
            /\ trades' = data
            /\ selectedId' = nextSelectedId(selectedId, data)
            /\ loading' = FALSE
            /\ pending' = pending \ {p}
            /\ lastLoad' = [ok |-> TRUE, prev |-> selectedId, before |-> trades,
                            data |-> data]
            /\ UNCHANGED <<req, res, handled, callArg, callRet,
                           filters, error, issued>>

\* fetchTrades rejected (no answer, or res.ok false): catch, then finally.
LoadFails ==
    \E p \in pending :
        /\ error' = Str("Failed to fetch trades")
        /\ loading' = FALSE
        /\ pending' = pending \ {p}
        /\ lastLoad' = [ok |-> FALSE, prev |-> selectedId, before |-> trades,
                        data |-> <<>>]
        /\ UNCHANGED <<mockTrades, req, res, handled, callArg, callRet,
                       trades, selectedId, filters, issued>>

\* The trades the dashboard is served from.
DashboardTrades == Trades({Null, Str(<<"A", "B">>)}, {<<"R">>}, {Null})

InitDashboard == InitServer(DashboardTrades)

NextDashboard == Mount \/ SetFilters \/ SelectRow \/ LoadSucceeds \/ LoadFails

SpecDashboard == InitDashboard /\ [][NextDashboard]_vars

---------------------------------------------------------------------------
(* Claims about the tagger, checked under SpecTagger *)

Called == callRet # Undefined

\* The four values the tagger needs are all there.
AllFourPresent(t) ==
    /\ t.signals # Null
    /\ \A f \in {"sma20", "donchianHigh20", "donchianLow20", "donchianMid20"} :
          t.signals[f] # Null

ArgP == callArg.signals.sma20.v
ArgH == callArg.signals.donchianHigh20.v
ArgL == callArg.signals.donchianLow20.v
ArgM == callArg.signals.donchianMid20.v

NoOverride == ~callRet.breakoutLong /\ ~callRet.breakdownShort

\* C1: classify returns no tag exactly when the snapshot is absent or one
\* of channel high, low, mid or sma20 is absent; with all four present it
\* returns a tag object, for a Purchase and for a Sale alike.
C1_TagIffAllFourPresent ==
    Called =>
        /\ callRet = Null <=> ~AllFourPresent(callArg)
        /\ AllFourPresent(callArg) => callRet \in DonchianTag

\* C1 witness: a Sale whose snapshot lacks only the channel mid was
\* classified and got no tag.
C1_Witness ==
    /\ Called
    /\ callArg.transaction = Sale
    /\ callArg.signals # Null
    /\ callArg.signals.donchianMid20 = Null
    /\ callArg.signals.sma20 # Null
    /\ callArg.signals.donchianHigh20 # Null
    /\ callArg.signals.donchianLow20 # Null
    /\ callRet = Null

\* The three base rules in their precedence order, on a tag with no override.
BaseRulesInOrder ==
    /\ (ArgM <= ArgP /\ ArgP <= ArgH) => callRet.zone = Upper
    /\ (~(ArgM <= ArgP /\ ArgP <= ArgH) /\ ArgL < ArgP /\ ArgP < ArgM)
          => callRet.zone = Mid
    /\ (~(ArgM <= ArgP /\ ArgP <= ArgH) /\ ~(ArgL < ArgP /\ ArgP < ArgM)
          /\ ArgP <= ArgL) => callRet.zone = Lower

---------------------------------------------------------------------------
(* Claims about the service, checked under Spec and SpecHandlers *)

Answered == res # Undefined

\* A filter value that was provided: a non-empty string.
Provided(q) == q.k = "string" /\ q.v # <<>>

SameLetter(c, d) ==
    c = d \/ \E i \in DOMAIN UpperCase : {c, d} = {UpperCase[i], LowerCase[i]}

EqualIgnoringCase(a, b) ==
    Len(a) = Len(b) /\ \A i \in DOMAIN a : SameLetter(a[i], b[i])

MatchesFilters(t, query) ==
    /\ Provided(query.ticker) =>
          (t.ticker # Null /\ EqualIgnoringCase(t.ticker.v, query.ticker.v))
    /\ Provided(query.party) => EqualIgnoringCase(t.party, query.party.v)
    /\ Provided(query.transaction) =>
          EqualIgnoringCase(t.transaction, query.transaction.v)

\* The n-th index of the set K of indices, in increasing order.
Nth(K, n) == CHOOSE i \in K : Cardinality({j \in K : j < i}) = n - 1

Unannotated(t) == [t EXCEPT !.donchian = Undefined]

\* `list` holds the stored trades at the indices K, in the stored order.
IsSelection(list, K) ==
    /\ Len(list) = Cardinality(K)
    /\ \A n \in DOMAIN list : Unannotated(list[n]) = mockTrades[Nth(K, n)]

IsListingRequest(r) == r.path = <<>>
IsSignalsRequest(r) == r.path = <<Signals>>
IsLookupRequest(r) == Len(r.path) = 1 /\ r.path # <<Signals>>

StringsOrAbsent(query) ==
    \A f \in {"ticker", "party", "transaction"} : query[f].k \in {"string", "undefined"}

\* C5: a listing request is answered with exactly the stored trades, in
\* stored order, that match every provided filter without regard to case; a
\* trade without ticker is excluded by a ticker filter, an unrecognized
\* transaction value gives an empty list, and with no (or only empty)
\* parameters the whole collection is returned.
C5_ListingIsFilteredSubsequence ==
    (Answered /\ IsListingRequest(req) /\ StringsOrAbsent(req.query)) =>
        /\ res.status = 200
        /\ res.body.k = "array"
        /\ IsSelection(res.body.v,
              {i \in DOMAIN mockTrades : MatchesFilters(mockTrades[i], req.query)})
        /\ Provided(req.query.ticker) =>
              \A n \in DOMAIN res.body.v : res.body.v[n].ticker # Null
        /\ req.query.transaction = Str(<<"h", "o", "l", "d">>) => res.body.v = <<>>
        /\ (\A f \in {"ticker", "party", "transaction"} : ~Provided(req.query[f])) =>
              Len(res.body.v) = Len(mockTrades)

\* C5 witness: the filter ticker=ab met a trade without ticker followed by
\* a trade with ticker AB and only the second was returned.
C5_Witness ==
    /\ Answered
    /\ IsListingRequest(req)
    /\ req.query.ticker = Str(<<"a", "b">>)
    /\ req.query.party = Undefined
    /\ req.query.transaction = Undefined
    /\ Len(mockTrades) = 2
    /\ mockTrades[1].ticker = Null
    /\ mockTrades[2].ticker = Str(<<"A", "B">>)
    /\ res.body.k = "array"
    /\ Len(res.body.v) = 1
    /\ res.body.v[1].id = mockTrades[2].id

\* C6: NotFound answers only a lookup-by-id whose identifier matches no
\* trade; a listing request and a signals request (GET
\* /api/trades/congress/signals) are answered with a trade list.
C6_NotFoundOnlyOnLookupMiss ==
    Answered =>
        /\ res = NotFound =>
              /\ IsLookupRequest(req)
              /\ \A i \in DOMAIN mockTrades :
                    Num(mockTrades[i].id) # Number(req.path[1])
        /\ (IsListingRequest(req) \/ IsSignalsRequest(req)) =>
              (res.status = 200 /\ res.body.k = "array")

\* The flags of a signals request and the two predicates, as the claim words them.
FlagOn(q) == q = Str(True)

ReadingOrZero(x) == IF x = Null THEN 0 ELSE x.v

IsBullish(t) ==
    ReadingOrZero(t.signals.rsi14) > 55 /\ ReadingOrZero(t.signals.macdHist) > 0

IsBreakout(t) ==
    LET tag == computeDonchianTag(t)
    IN  tag \in DonchianTag /\ (tag.breakoutLong \/ tag.breakdownShort)

\* C7: when the signals callback runs, its result is exactly the stored
\* trades, in stored order, that have a snapshot and satisfy every enabled
\* predicate; rsi14 = 56 with macdHist = null fails bullishOnly.
C7_SignalsIsFilteredSubsequence ==
    (Answered /\ handled = "/api/trades/congress/signals") =>
        /\ res.status = 200
        /\ res.body.k = "array"
        /\ IsSelection(res.body.v,
              {i \in DOMAIN mockTrades :
                  /\ mockTrades[i].signals # Null
                  /\ FlagOn(req.query.bullishOnly) => IsBullish(mockTrades[i])
                  /\ FlagOn(req.query.donchianBreakoutsOnly) => IsBreakout(mockTrades[i])})
        /\ FlagOn(req.query.bullishOnly) =>
              \A n \in DOMAIN res.body.v : res.body.v[n].signals.macdHist # Null

\* C7 witness: with both flags on, of two trades with a snapshot only the
\* second, bullish and a breakout, was returned by the signals callback.
C7_Witness ==
    /\ Answered
    /\ handled = "/api/trades/congress/signals"
    /\ FlagOn(req.query.bullishOnly)
    /\ FlagOn(req.query.donchianBreakoutsOnly)
    /\ Len(mockTrades) = 2
    /\ mockTrades[1].signals # Null
    /\ mockTrades[1].signals.rsi14 = Num(56)
    /\ mockTrades[1].signals.macdHist = Null
    /\ mockTrades[2].signals # Null
    /\ res.body.k = "array"
    /\ Len(res.body.v) = 1
    /\ res.body.v[1].id = mockTrades[2].id

\* C8: a lookup for identifier n is answered with the annotated trade whose
\* id is n when there is one, and with NotFound (not a list, another trade
\* or anything else) when there is none.
C8_LookupByIdFindsOrNotFound ==
    (Answered /\ Len(req.path) = 1) =>
        LET n == Number(req.path[1])
            hits == {i \in DOMAIN mockTrades : Num(mockTrades[i].id) = n}
        IN  IF hits # {}
            THEN /\ res.status = 200
                 /\ res.body.k = "object"
                 /\ Num(res.body.v.id) = n
                 /\ res.body.v.donchian # Undefined
                 /\ \E i \in hits : Unannotated(res.body.v) = mockTrades[i]
            ELSE res = NotFound

\* C8 witness: a numeric identifier that no trade of a non-empty collection
\* has was looked up and answered NotFound.
C8_Witness ==
    /\ Answered
    /\ Len(req.path) = 1
    /\ Number(req.path[1]) # NaN
    /\ mockTrades # <<>>
    /\ \A i \in DOMAIN mockTrades : Num(mockTrades[i].id) # Number(req.path[1])
    /\ res = NotFound

\* The trades a response carries.
Returned ==
    IF res.body.k = "array" THEN {res.body.v[n] : n \in DOMAIN res.body.v}
    ELSE IF res.status = 200 THEN {res.body.v}
    ELSE {}

\* C9: every trade returned by the listing, signals or lookup callback
\* carries a donchian field equal to computeDonchianTag of the stored trade
\* (a tag or null), and its other fields equal the stored trade's.
C9_EveryReturnedTradeAnnotated ==
    Answered =>
        \A r \in Returned :
            \E i \in DOMAIN mockTrades :
                /\ mockTrades[i].id = r.id
                /\ r.donchian # Undefined
                /\ r.donchian = computeDonchianTag(mockTrades[i])
                /\ Unannotated(r) = mockTrades[i]

\* C9 witness: a list was returned that holds a trade annotated with a tag
\* and a trade annotated with null.
C9_Witness ==
    /\ Answered
    /\ res.body.k = "array"
    /\ \E r \in Returned : r.donchian \in DonchianTag
    /\ \E r \in Returned : r.donchian = Null

\* C10: no request, in any sequence, changes the trade collection or a
\* record in it.
C10_CollectionNeverChanges == [][mockTrades' = mockTrades]_vars

\* C10 witness: the signals callback returned a trade annotated with a tag
\* while no stored trade has a donchian field.
C10_Witness ==
    /\ Answered
    /\ handled = "/api/trades/congress/signals"
    /\ \E r \in Returned : r.donchian \in DonchianTag
    /\ \A i \in DOMAIN mockTrades : mockTrades[i].donchian = Undefined

---------------------------------------------------------------------------
(* Claim about the decoding of the filter parameters, checked under SpecPadded *)

\* String.prototype.trim on the space character.
RECURSIVE trimStart(_)
trimStart(s) == IF s # <<>> /\ Head(s) = " " THEN trimStart(Tail(s)) ELSE s

RECURSIVE trimEnd(_)
trimEnd(s) ==
    IF s # <<>> /\ s[Len(s)] = " " THEN trimEnd(SubSeq(s, 1, Len(s) - 1)) ELSE s

trim(s) == trimEnd(trimStart(s))

Trimmed(q) == IF q.k = "string" THEN Str(trim(q.v)) ELSE q

TrimmedRequest(r) ==
    [r EXCEPT !.query.ticker = Trimmed(@), !.query.party = Trimmed(@),
              !.query.transaction = Trimmed(@)]

\* C11: a listing request is answered as the request with its ticker, party
\* and transaction values trimmed is answered; a value that is empty once
\* trimmed filters nothing.
C11_FiltersAreTrimmed ==
    (Answered /\ IsListingRequest(req)) =>
        /\ res = listTrades(mockTrades, TrimmedRequest(req)).res
        /\ (\A f \in {"ticker", "party", "transaction"} :
               ~Provided(Trimmed(req.query[f]))) =>
              Len(res.body.v) = Len(mockTrades)

---------------------------------------------------------------------------
(* Claims about the dashboard, checked under SpecDashboard *)

\* The list the service returns for the filters now set.
ListFor(f) == fetchTrades(mockTrades, paramsFrom(f)).res.body.v

\* C12: once every load has completed (none having failed since the last
\* one started) the displayed list is the response for the filters last
\* set, and loading is true whenever a load is still in flight.
C12_LatestFiltersShown ==
    /\ (issued > 0 /\ pending = {} /\ error = Null) => trades = ListFor(filters)
    /\ pending # {} => loading

InList(id, list) == \E i \in DOMAIN list : Num(list[i].id) = id

\* C13: after a successful load the selected id is null exactly when the
\* loaded list is empty and otherwise the id of a loaded trade: the id
\* selected before when it is still in the list (0 included), else the
\* first trade's; after a failed load the list and the selected id are as
\* before and an error message is set.
C13_SelectionAfterLoad ==
    lastLoad # Undefined =>
        IF lastLoad.ok
        THEN /\ trades = lastLoad.data
             /\ selectedId = Null <=> trades = <<>>
             /\ selectedId # Null => InList(selectedId, trades)
             /\ (lastLoad.prev # Null /\ InList(lastLoad.prev, trades)) =>
                   selectedId = lastLoad.prev
             /\ (trades # <<>> /\ ~(lastLoad.prev # Null /\ InList(lastLoad.prev, trades))) =>
                   selectedId = Num(trades[1].id)
        ELSE /\ trades = lastLoad.before
             /\ selectedId = lastLoad.prev
             /\ error # Null

=============================================================================
